---- MODULE Spec2Model ----
(***************************************************************************)
(* Fuzzy air-quality assessment (src/sa/fuzzy_system.py) and its web       *)
(* callers (src/sa/app.py).                                                *)
(*                                                                         *)
(* Number representation.  TLC has integers only, so every real quantity   *)
(* of the program is kept in a fixed unit:                                 *)
(*   CO            tenths of ppm          (co = 15.0      ->   150)        *)
(*   NO2, O3       units                  (no2 = 380      ->   380)        *)
(*   Temperature   tenths of a degree     (temp = 20.0    ->   200)        *)
(*   Humidity      units                                                   *)
(*   degrees       1/One                  (1.0            ->   One)        *)
(*   AQI values    hundredths, rounded up (aqi = 50.0     ->  5000)        *)
(* Rounding AQI values up keeps every `aqi <= k` test of the source exact  *)
(* for the integer thresholds k the source uses.  Inputs are taken on the  *)
(* sample grid of the universes, where the toolkit's interpolated          *)
(* membership equals the membership function itself.                       *)
(***************************************************************************)
EXTENDS Integers, Sequences, FiniteSets, TLC

\* The degree 1.0 in the unit of degrees.
One == 100 * 100

Max(a, b) == IF a >= b THEN a ELSE b
Min(a, b) == IF a <= b THEN a ELSE b
Abs(a) == IF a >= 0 THEN a ELSE -a

\* n / d rounded up, for n >= 0 and d > 0.
CeilDiv(n, d) == (n + d - 1) \div d

\* n / d rounded to nearest, for n >= 0 and d > 0.
RoundDiv(n, d) == (2 * n + d) \div (2 * d)

(***************************************************************************)
(* The toolkit's membership shapes (fuzz.trimf, fuzz.trapmf, fuzz.gaussmf) *)
(* as init_fuzzy_variables uses them.                                      *)
(***************************************************************************)

\* fuzz.trimf(x, [a, b, c]): 1 at the peak b, linear on (a,b) and (b,c), 0 elsewhere.
fuzz_trimf(x, a, b, c) ==
    IF x = b THEN One
    ELSE IF a < x /\ x < b THEN ((x - a) * One) \div (b - a)
    ELSE IF b < x /\ x < c THEN ((c - x) * One) \div (c - b)
    ELSE 0

\* fuzz.trapmf(x, [a, b, c, d]): trimf [a,b,b] up to b, 1 on [b,c], trimf [c,c,d] from c.
fuzz_trapmf(x, a, b, c, d) ==
    IF x < a \/ x > d THEN 0
    ELSE IF x <= b THEN fuzz_trimf(x, a, b, b)
    ELSE IF x >= c THEN fuzz_trimf(x, c, c, d)
    ELSE One

\* exp(-r/m) for 0 <= r < m, by its Taylor series (terms i = 0..12).
RECURSIVE ExpFracSeries(_, _, _, _)
ExpFracSeries(r, m, i, term) ==
    IF i > 12 \/ term = 0 THEN 0
    ELSE (IF i % 2 = 0 THEN term ELSE -term)
         + ExpFracSeries(r, m, i + 1, (term * r) \div (m * (i + 1)))

\* v * exp(-k) for a natural k; exp(-1) is 0.3679.
RECURSIVE ExpWhole(_, _)
ExpWhole(v, k) ==
    IF k = 0 \/ v = 0 THEN v
    ELSE ExpWhole(RoundDiv(v * 3679, One), k - 1)

\* exp(-n/m) for n >= 0, m > 0.
ExpNeg(n, m) == ExpWhole(ExpFracSeries(n % m, m, 0, One), n \div m)

\* A bell cut off at three standard deviations from its mean.
fuzz_gaussmf_truncated(x, mean, sigma) ==
    IF Abs(x - mean) > 3 * sigma THEN 0
    ELSE ExpNeg((x - mean) * (x - mean), 2 * sigma * sigma)

\* fuzz.gaussmf(x, mean, sigma) = exp(-(x - mean)^2 / (2 sigma^2)).
fuzz_gaussmf(x, mean, sigma) ==
    ExpNeg((x - mean) * (x - mean), 2 * sigma * sigma)

(***************************************************************************)
(* __init__ and init_fuzzy_variables: the universes and the linguistic     *)
(* variables of the Mamdani system.                                        *)
(***************************************************************************)

Labels == <<"CO", "NO2", "O3", "Temperature", "Humidity">>
LabelSet == {Labels[i] : i \in 1..Len(Labels)}

\* Smallest and largest sample of each universe (np.arange excludes its stop).
UniverseMin(label) ==
    CASE label = "CO" -> 0
      [] label = "NO2" -> 0
      [] label = "O3" -> 0
      [] label = "Temperature" -> -100
      [] label = "Humidity" -> 0

UniverseMax(label) ==
    CASE label = "CO" -> 199
      [] label = "NO2" -> 399
      [] label = "O3" -> 2990
      [] label = "Temperature" -> 495
      [] label = "Humidity" -> 99

\* The AQI universe np.arange(0, 500, 1).
aqi_universe == 0..499

Terms(label) ==
    CASE label = "CO" -> {"Very_Low", "Low", "Moderate", "High", "Very_High"}
      [] label = "NO2" -> {"Excellent", "Good", "Fair", "Poor", "Hazardous"}
      [] label = "O3" -> {"Good", "Moderate", "Unhealthy", "Very_Unhealthy"}
      [] label = "Temperature" -> {"Cold", "Comfortable", "Hot"}
      [] label = "Humidity" -> {"Dry", "Comfortable", "Humid"}

co_level(term, x) ==
    CASE term = "Very_Low" -> fuzz_trimf(x, 0, 0, 20)
      [] term = "Low" -> fuzz_trimf(x, 10, 25, 40)
      [] term = "Moderate" -> fuzz_trimf(x, 30, 50, 70)
      [] term = "High" -> fuzz_trimf(x, 60, 90, 120)
      [] term = "Very_High" -> fuzz_trapmf(x, 100, 150, 200, 200)

no2_level(term, x) ==
    CASE term = "Excellent" -> fuzz_gaussmf(x, 20, 15)
      [] term = "Good" -> fuzz_gaussmf(x, 50, 20)
      [] term = "Fair" -> fuzz_gaussmf(x, 100, 30)
      [] term = "Poor" -> fuzz_gaussmf(x, 200, 50)
      [] term = "Hazardous" -> fuzz_trapmf(x, 150, 250, 400, 400)

o3_level(term, x) ==
    CASE term = "Good" -> fuzz_trimf(x, 0, 0, 1000)
      [] term = "Moderate" -> fuzz_trimf(x, 500, 1250, 2000)
      [] term = "Unhealthy" -> fuzz_trimf(x, 1500, 2250, 3000)
      [] term = "Very_Unhealthy" -> fuzz_trapmf(x, 2500, 2750, 3000, 3000)

\* Temperature terms with 'Hot' rising from 15 degrees.
temperature_warm(term, x) ==
    CASE term = "Cold" -> fuzz_trapmf(x, -100, -100, 50, 150)
      [] term = "Comfortable" -> fuzz_trimf(x, 100, 200, 300)
      [] term = "Hot" -> fuzz_trapmf(x, 150, 350, 500, 500)

temperature(term, x) ==
    CASE term = "Cold" -> fuzz_trapmf(x, -100, -100, 50, 150)
      [] term = "Comfortable" -> fuzz_trimf(x, 100, 200, 300)
      [] term = "Hot" -> fuzz_trapmf(x, 250, 350, 500, 500)

humidity(term, x) ==
    CASE term = "Dry" -> fuzz_trimf(x, 0, 0, 50)
      [] term = "Comfortable" -> fuzz_trimf(x, 30, 50, 70)
      [] term = "Humid" -> fuzz_trimf(x, 60, 100, 100)

\* Membership of an input variable's term at x.
Antecedent(label, term, x) ==
    CASE label = "CO" -> co_level(term, x)
      [] label = "NO2" -> no2_level(term, x)
      [] label = "O3" -> o3_level(term, x)
      [] label = "Temperature" -> temperature(term, x)
      [] label = "Humidity" -> humidity(term, x)

AqiTerms ==
    <<"Good", "Moderate", "Unhealthy_Sensitive", "Unhealthy", "Very_Unhealthy", "Hazardous">>

\* The output variable's terms, sampled on the AQI universe.
aqi(term, y) ==
    CASE term = "Good" -> fuzz_trimf(y, 0, 0, 50)
      [] term = "Moderate" -> fuzz_trimf(y, 51, 100, 150)
      [] term = "Unhealthy_Sensitive" -> fuzz_trimf(y, 101, 150, 200)
      [] term = "Unhealthy" -> fuzz_trimf(y, 151, 200, 300)
      [] term = "Very_Unhealthy" -> fuzz_trimf(y, 201, 300, 400)
      [] term = "Hazardous" -> fuzz_trapmf(y, 301, 400, 500, 500)

AqiCurve == [i \in 1..Len(AqiTerms) |-> [y \in aqi_universe |-> aqi(AqiTerms[i], y)]]

(***************************************************************************)
(* build_rule_base: the ten rules, antecedents as expression trees         *)
(* (`&` is min, `|` is max), in source order.                              *)
(***************************************************************************)

Leaf(label, term) == [op |-> "leaf", label |-> label, term |-> term]
And(l, r) == [op |-> "and", l |-> l, r |-> r]
Or(l, r) == [op |-> "or", l |-> l, r |-> r]
Rule(antecedent, consequent) == [antecedent |-> antecedent, consequent |-> consequent]

rules ==
    << Rule(And(And(Leaf("CO", "Very_Low"),
                    Or(Leaf("NO2", "Excellent"), Leaf("NO2", "Good"))),
                Or(Leaf("O3", "Good"), Leaf("O3", "Moderate"))),
            "Good"),
       Rule(And(And(Leaf("CO", "Low"), Leaf("NO2", "Fair")), Leaf("O3", "Moderate")),
            "Moderate"),
       Rule(And(Leaf("CO", "Moderate"), Or(Leaf("NO2", "Fair"), Leaf("NO2", "Poor"))),
            "Unhealthy_Sensitive"),
       Rule(Or(Leaf("CO", "High"), Leaf("NO2", "Poor")),
            "Unhealthy"),
       Rule(Or(Or(Leaf("CO", "Very_High"), Leaf("NO2", "Hazardous")),
               Leaf("O3", "Very_Unhealthy")),
            "Hazardous"),
       Rule(And(And(Leaf("CO", "Low"), Leaf("NO2", "Good")), Leaf("O3", "Good")),
            "Good"),
       Rule(And(Or(Leaf("CO", "Moderate"), Leaf("NO2", "Fair")), Leaf("O3", "Moderate")),
            "Moderate"),
       Rule(And(And(Or(Leaf("CO", "High"), Leaf("NO2", "Poor")),
                    Leaf("Temperature", "Hot")),
                Leaf("Humidity", "Humid")),
            "Very_Unhealthy"),
       Rule(And(Leaf("O3", "Unhealthy"), Leaf("Temperature", "Hot")),
            "Unhealthy"),
       Rule(Or(And(Leaf("CO", "Very_High"), Leaf("NO2", "Hazardous")),
               And(Leaf("O3", "Very_Unhealthy"), Leaf("Temperature", "Hot"))),
            "Hazardous") >>

(***************************************************************************)
(* aqi_sim.compute(): fuzzification, rule firing, max-accumulation per     *)
(* output term, min-implication, max-aggregation and centroid              *)
(* defuzzification of the simulation's current inputs.                     *)
(***************************************************************************)

\* Firing strength with `&` taken as max and `|` as min.
RECURSIVE membership_value_swapped(_, _)
membership_value_swapped(tree, inp) ==
    CASE tree.op = "leaf" -> Antecedent(tree.label, tree.term, inp[tree.label])
      [] tree.op = "and" -> Max(membership_value_swapped(tree.l, inp),
                                membership_value_swapped(tree.r, inp))
      [] tree.op = "or" -> Min(membership_value_swapped(tree.l, inp),
                               membership_value_swapped(tree.r, inp))

\* Firing strength of an antecedent tree for the crisp inputs `inp`.
RECURSIVE membership_value(_, _)
membership_value(tree, inp) ==
    CASE tree.op = "leaf" -> Antecedent(tree.label, tree.term, inp[tree.label])
      [] tree.op = "and" -> Min(membership_value(tree.l, inp), membership_value(tree.r, inp))
      [] tree.op = "or" -> Max(membership_value(tree.l, inp), membership_value(tree.r, inp))

\* Firing strength of every rule from the i-th on, in rule order.
RECURSIVE FiringFrom(_, _, _)
FiringFrom(rs, inp, i) ==
    IF i > Len(rs) THEN << >>
    ELSE <<membership_value(rs[i].antecedent, inp)>> \o FiringFrom(rs, inp, i + 1)

Firing(rs, inp) == FiringFrom(rs, inp, 1)

\* Accumulation in which a later rule replaces the cut an earlier rule of
\* the same output term left.
RECURSIVE Accumulate_last(_, _, _, _)
Accumulate_last(rs, fire, term, i) ==
    IF i > Len(rs) THEN 0
    ELSE IF rs[i].consequent = term /\ \A j \in (i + 1)..Len(rs) : rs[j].consequent # term
         THEN fire[i]
         ELSE Accumulate_last(rs, fire, term, i + 1)

\* Accumulated cut of an output term: the maximum over the rules that name it.
RECURSIVE Accumulate(_, _, _, _)
Accumulate(rs, fire, term, i) ==
    IF i > Len(rs) THEN 0
    ELSE Max(IF rs[i].consequent = term THEN fire[i] ELSE 0,
             Accumulate(rs, fire, term, i + 1))

RECURSIVE CutsFrom(_, _, _)
CutsFrom(rs, fire, i) ==
    IF i > Len(AqiTerms) THEN << >>
    ELSE <<Accumulate(rs, fire, AqiTerms[i], 1)>> \o CutsFrom(rs, fire, i + 1)

\* The cut of every output term, in term order.
Cuts(rs, inp) == CutsFrom(rs, Firing(rs, inp), 1)

\* Aggregation that takes the whole curve of every term a rule fired for.
RECURSIVE Aggregate_unclipped(_, _, _)
Aggregate_unclipped(cuts, y, i) ==
    IF i > Len(AqiTerms) THEN 0
    ELSE Max(IF cuts[i] > 0 THEN AqiCurve[i][y] ELSE 0, Aggregate_unclipped(cuts, y, i + 1))

\* The aggregated output set at y: max over terms of min(cut, term membership).
RECURSIVE Aggregate(_, _, _)
Aggregate(cuts, y, i) ==
    IF i > Len(AqiTerms) THEN 0
    ELSE Max(Min(cuts[i], AqiCurve[i][y]), Aggregate(cuts, y, i + 1))

\* Sum of the aggregated set, and of y times it, over the samples lo..hi.
RECURSIVE SumArea(_, _, _)
SumArea(cuts, lo, hi) ==
    IF lo = hi THEN Aggregate(cuts, lo, 1)
    ELSE LET mid == (lo + hi) \div 2
         IN  SumArea(cuts, lo, mid) + SumArea(cuts, mid + 1, hi)

RECURSIVE SumMoment(_, _, _)
SumMoment(cuts, lo, hi) ==
    IF lo = hi THEN lo * Aggregate(cuts, lo, 1)
    ELSE LET mid == (lo + hi) \div 2
         IN  SumMoment(cuts, lo, mid) + SumMoment(cuts, mid + 1, hi)

\* n / d in hundredths, rounded up, without leaving 32 bits.
Hundredths(n, d) == (n \div d) * 100 + CeilDiv((n % d) * 100, d)

\* The defuzzified AQI of the inputs `inp`, or "ValueError" when the
\* aggregated set is empty (the toolkit refuses a zero total area).
Defuzz(rs, inp) ==
    LET cuts == Cuts(rs, inp)
        area == SumArea(cuts, 0, 499)
    IN  IF area = 0 THEN [raised |-> TRUE, value |-> 0]
        ELSE [raised |-> FALSE, value |-> Hundredths(SumMoment(cuts, 0, 499), area)]

(***************************************************************************)
(* The hand-written engine behind simple_assess.                           *)
(***************************************************************************)

\* trimf without its first test, the one that returns 0 outside (a, c).
trimf_unguarded(x, a, b, c) ==
    IF a < x /\ x < b THEN (IF b - a # 0 THEN ((x - a) * One) \div (b - a) ELSE 0)
    ELSE IF c - b # 0 THEN ((c - x) * One) \div (c - b) ELSE 0

\* The nested helper trimf(x, a, b, c) of calculate_*_membership.
trimf(x, a, b, c) ==
    IF x <= a \/ x >= c THEN 0
    ELSE IF a < x /\ x < b THEN (IF b - a # 0 THEN ((x - a) * One) \div (b - a) ELSE 0)
    ELSE IF c - b # 0 THEN ((c - x) * One) \div (c - b) ELSE 0

\* The nested helper trapmf(x, a, b, c, d) of calculate_co_membership.
trapmf(x, a, b, c, d) ==
    IF x <= a \/ x >= d THEN 0
    ELSE IF a < x /\ x < b THEN (IF b - a # 0 THEN ((x - a) * One) \div (b - a) ELSE 0)
    ELSE IF b <= x /\ x <= c THEN One
    ELSE IF d - c # 0 THEN ((d - x) * One) \div (d - c) ELSE 0

\* The nested helper trap_left(x, a, b) of calculate_no2_membership.
trap_left(x, a, b) ==
    IF x <= a THEN One
    ELSE IF x >= b THEN 0
    ELSE IF b - a # 0 THEN ((b - x) * One) \div (b - a) ELSE 0

\* The nested helpers ramp_right / trap_right(x, a, b).
ramp_right(x, a, b) ==
    IF x <= a THEN 0
    ELSE IF x >= b THEN One
    ELSE IF b - a # 0 THEN ((x - a) * One) \div (b - a) ELSE 0

\* co in tenths of ppm.
calculate_co_membership(co) ==
    LET x == Max(0, Min(co, 200))
    IN  [Very_Low |-> trimf(x, 0, 0, 20),
         Low |-> trimf(x, 10, 25, 40),
         Moderate |-> trimf(x, 30, 50, 70),
         High |-> trimf(x, 60, 90, 120),
         Very_High |-> trapmf(x, 100, 150, 200, 200)]

\* no2 in units.
calculate_no2_membership(no2) ==
    LET x == Max(0, Min(no2, 400))
    IN  [Excellent |-> trap_left(x, 0, 50),
         Good |-> trimf(x, 50, 100, 150),
         Fair |-> trimf(x, 125, 200, 275),
         Poor |-> trimf(x, 225, 300, 375),
         Hazardous |-> ramp_right(x, 350, 400)]

\* calculate_o3_membership without the clamp of its first line.
calculate_o3_membership_unclamped(o3) ==
    LET x == o3
    IN  [Good |-> IF x <= 10000 THEN Max(0, ((10000 - x) * One) \div 10000) ELSE 0,
         Moderate |-> trimf(x, 10000, 15000, 20000),
         Unhealthy |-> trimf(x, 17500, 22500, 27500),
         Very_Unhealthy |-> ramp_right(x, 25000, 30000)]

\* o3 in tenths (the normalised reading of simple_assess may be fractional).
calculate_o3_membership(o3) ==
    LET x == Max(0, Min(o3, 30000))
    IN  [Good |-> IF x <= 10000 THEN Max(0, ((10000 - x) * One) \div 10000) ELSE 0,
         Moderate |-> trimf(x, 10000, 15000, 20000),
         Unhealthy |-> trimf(x, 17500, 22500, 27500),
         Very_Unhealthy |-> ramp_right(x, 25000, 30000)]

\* The weights dictionary of calculate_fuzzy_aqi: a later duplicate key
\* replaces an earlier one, so 'Good' is 10 and 'Moderate' is 50.
weights(category) ==
    CASE category = "Very_Low" -> 10
      [] category = "Low" -> 30
      [] category = "Moderate" -> 50
      [] category = "High" -> 75
      [] category = "Very_High" -> 100
      [] category = "Excellent" -> 10
      [] category = "Fair" -> 55
      [] category = "Poor" -> 80
      [] category = "Hazardous" -> 100
      [] category = "Good" -> 10
      [] category = "Unhealthy" -> 85
      [] category = "Very_Unhealthy" -> 100
      [] OTHER -> 50

\* Sum over the positive entries of a membership map of f(term, value).
RECURSIVE SumPositive(_, _, _)
SumPositive(mf, keys, weighted) ==
    IF keys = {} THEN 0
    ELSE LET k == CHOOSE k \in keys : TRUE
             v == IF mf[k] > 0 THEN (IF weighted THEN mf[k] * weights(k) ELSE mf[k]) ELSE 0
         IN  v + SumPositive(mf, keys \ {k}, weighted)

\* AQI in hundredths on the 0..100 scale; 50 when no term has a positive degree.
calculate_fuzzy_aqi(co_mf, no2_mf, o3_mf) ==
    LET weighted_sum == SumPositive(co_mf, DOMAIN co_mf, TRUE)
                        + SumPositive(no2_mf, DOMAIN no2_mf, TRUE)
                        + SumPositive(o3_mf, DOMAIN o3_mf, TRUE)
        total_weight == SumPositive(co_mf, DOMAIN co_mf, FALSE)
                        + SumPositive(no2_mf, DOMAIN no2_mf, FALSE)
                        + SumPositive(o3_mf, DOMAIN o3_mf, FALSE)
        aqi_value == IF total_weight > 0 THEN Hundredths(weighted_sum, total_weight)
                     ELSE 50 * 100
    IN  Min(100 * 100, Max(0, aqi_value))

\* Lines 408-425: the score of calculate_crisp_aqi; co, no2 and o3 in tenths.
crisp_score(co, no2, o3) ==
    LET co_score == IF co < 10 THEN 40 ELSE IF co < 30 THEN 30
                    ELSE IF co < 50 THEN 20 ELSE IF co < 70 THEN 10 ELSE 0
        no2_score == IF no2 < 500 THEN 35 ELSE IF no2 < 1000 THEN 25
                     ELSE IF no2 < 1500 THEN 15 ELSE IF no2 < 2000 THEN 5 ELSE 0
        o3_score == IF o3 < 500 THEN 25 ELSE IF o3 < 1000 THEN 15
                    ELSE IF o3 < 1500 THEN 5 ELSE 0
    IN  co_score + no2_score + o3_score

\* Line 428 is evaluated in binary floating point (53-bit mantissa, round to
\* nearest, ties to even).  A result near a whole number v is written
\* [whole |-> v, ulps |-> k]: v plus k times the distance from v to the next
\* double on the side of k.

\* The exponent of the leading bit of n >= 1.
RECURSIVE Log2Floor(_)
Log2Floor(n) == IF n < 2 THEN 0 ELSE 1 + Log2Floor(n \div 2)

IsPowerOfTwo(n) == 2 ^ Log2Floor(n) = n

\* n / m rounded to the nearest integer, ties to even (m > 0).
RoundHalfEven(n, m) ==
    LET q == n \div m
        r == n % m
    IN  IF 2 * r > m \/ (2 * r = m /\ q % 2 = 1) THEN q + 1 ELSE q

\* Position after the binary point of the leading bit of r / 100, 0 < r < 100.
RECURSIVE LeadingBit(_, _)
LeadingBit(r, t) == IF 2 * r >= 100 THEN t ELSE LeadingBit(2 * r, t + 1)

\* Remainder and last bit of r / 100 after n more binary digits.
RECURSIVE LongDivision(_, _, _)
LongDivision(r, bit, n) ==
    IF n = 0 THEN [r |-> r, bit |-> bit]
    ELSE LongDivision((2 * r) % 100, (2 * r) \div 100, n - 1)

\* score / 100 as a double, times 100, is score + d / 2^(t + 52), where t is
\* the position of the quotient's leading bit: the record [d, t].
QuotientError(score) ==
    LET t == LeadingBit(score, 1)
        last == LongDivision(score, 0, t + 52)
        up == last.r > 50 \/ (last.r = 50 /\ last.bit = 1)
    IN  [d |-> IF up THEN 100 - last.r ELSE -last.r, t |-> t]

\* The double nearest to v + num / 2^w spacings of v, as a count of the
\* spacings on its side of v; below a power of two the spacing is halved.
NearestDouble(v, num, w) ==
    IF num < 0 /\ IsPowerOfTwo(v) THEN RoundHalfEven(2 * num, 2 ^ w)
    ELSE RoundHalfEven(num, 2 ^ w)

\* Exponent, less 52, of the spacing of the doubles next to v on the side of k.
SpacingExponent(v, k) == Log2Floor(v) - (IF k < 0 /\ IsPowerOfTwo(v) THEN 1 ELSE 0)

\* score / 100 * 100 for a score in 0..100.
score_percent(score) ==
    IF score = 0 \/ score = 100 THEN [whole |-> score, ulps |-> 0]
    ELSE LET e == QuotientError(score)
         IN  [whole |-> score,
              ulps |-> NearestDouble(score, e.d, e.t + Log2Floor(score))]

\* Line 428: aqi = 100 - (score / 100 * 100).
score_to_aqi(score) ==
    LET p == score_percent(score)
        whole == 100 - score
    IN  IF p.ulps = 0 THEN [whole |-> whole, ulps |-> 0]
        ELSE LET from == SpacingExponent(score, p.ulps)
                 to == SpacingExponent(whole, -p.ulps)
             IN  [whole |-> whole,
                  ulps |-> IF from >= to THEN -p.ulps * 2 ^ (from - to)
                           ELSE RoundHalfEven(-p.ulps, 2 ^ (to - from))]

\* Line 429: max(0, min(aqi, 100)), the double calculate_crisp_aqi returns.
calculate_crisp_aqi_double(co, no2, o3) ==
    LET aqi_value == score_to_aqi(crisp_score(co, no2, o3))
    IN  IF aqi_value.whole < 0 \/ (aqi_value.whole = 0 /\ aqi_value.ulps < 0)
        THEN [whole |-> 0, ulps |-> 0]
        ELSE IF aqi_value.whole > 100 \/ (aqi_value.whole = 100 /\ aqi_value.ulps > 0)
        THEN [whole |-> 100, ulps |-> 0]
        ELSE aqi_value

\* calculate_crisp_aqi(co, no2, o3), co, no2 and o3 in tenths; the result in
\* hundredths, rounded up.
calculate_crisp_aqi(co, no2, o3) ==
    LET returned == calculate_crisp_aqi_double(co, no2, o3)
    IN  returned.whole * 100 + (IF returned.ulps > 0 THEN 1 ELSE 0)

\* aqi in hundredths.
get_category(aqi_value) ==
    IF aqi_value <= 2500 THEN "Excellent"
    ELSE IF aqi_value <= 5000 THEN "Good"
    ELSE IF aqi_value <= 7500 THEN "Fair"
    ELSE IF aqi_value <= 9000 THEN "Poor"
    ELSE "Very Poor"

\* aqi in hundredths.
\* aqi_to_category with the last band closed at 500 instead of 300.
aqi_to_category_wide(aqi_value) ==
    IF aqi_value <= 5000 THEN "Good"
    ELSE IF aqi_value <= 10000 THEN "Moderate"
    ELSE IF aqi_value <= 15000 THEN "Unhealthy_Sensitive"
    ELSE IF aqi_value <= 20000 THEN "Unhealthy"
    ELSE IF aqi_value <= 50000 THEN "Very_Unhealthy"
    ELSE "Hazardous"

aqi_to_category(aqi_value) ==
    IF aqi_value <= 5000 THEN "Good"
    ELSE IF aqi_value <= 10000 THEN "Moderate"
    ELSE IF aqi_value <= 15000 THEN "Unhealthy_Sensitive"
    ELSE IF aqi_value <= 20000 THEN "Unhealthy"
    ELSE IF aqi_value <= 30000 THEN "Very_Unhealthy"
    ELSE "Hazardous"

\* Line 257 of simple_assess: o3_normalized = o3 / 10.0 if o3 > 100 else o3,
\* for o3 in units; the value in tenths.
simple_o3_normalized(o3) == IF o3 > 100 THEN o3 ELSE o3 * 10

\* simple_assess(co, no2, o3): co in tenths, no2 and o3 in units.
simple_assess(co, no2, o3) ==
    LET co_membership == calculate_co_membership(co)
        no2_membership == calculate_no2_membership(no2)
        o3_membership == calculate_o3_membership(simple_o3_normalized(o3))
        fuzzy_aqi == calculate_fuzzy_aqi(co_membership, no2_membership, o3_membership)
        crisp_aqi == calculate_crisp_aqi(co, no2 * 10, simple_o3_normalized(o3))
    IN  [success |-> TRUE,
         fuzzy_aqi |-> fuzzy_aqi,
         category |-> get_category(fuzzy_aqi),
         crisp_aqi |-> crisp_aqi,
         membership |-> [co |-> co_membership, no2 |-> no2_membership,
                         o3 |-> o3_membership]]

(***************************************************************************)
(* The running system: one FuzzyAirQualitySystem (app.py: fuzzy_system)    *)
(* shared by the request handlers, each handler call a caller.             *)
(***************************************************************************)

\* Concurrent request handlers (threads of the web server).
Callers == {"t1", "t2"}

\* Requests the model follows the system through.
MaxRequests == 3

\* Readings a request may carry: CO tenths; NO2; O3; temperature tenths; humidity.
Reading(co, no2, o3, temp, hum) ==
    [CO |-> co, NO2 |-> no2, O3 |-> o3, Temperature |-> temp, Humidity |-> hum]

\* The requests of the model: a clean reading, a hazardous one, the hazardous
\* one on a hot and humid day on either route, and one outside the CO and O3
\* universes.
Requests ==
    { [route |-> "/enhanced_assess", data |-> Reading(10, 30, 200, 200, 50)],
      [route |-> "/enhanced_assess", data |-> Reading(150, 380, 2900, 200, 50)],
      [route |-> "/assess", data |-> Reading(150, 380, 2900, 400, 90)],
      [route |-> "/enhanced_assess", data |-> Reading(150, 380, 2900, 400, 90)],
      [route |-> "/enhanced_assess", data |-> Reading(250, 50, 10000, 200, 50)] }

\* A caller's request slot while it has none.
NoRequest == [route |-> "none", data |-> Reading(0, 0, 0, 0, 0)]

\* The toolkit clips an input to its universe (clip_to_bounds is the default).
Clip(label, value) == Max(UniverseMin(label), Min(value, UniverseMax(label)))

\* Every input vector the simulation can hold when fed by Requests.
InputSpace ==
    LET vals(label) == {Clip(label, r.data[label]) : r \in Requests}
    IN  { Reading(a, b, c, d, e) : a \in vals("CO"), b \in vals("NO2"), c \in vals("O3"),
                                   d \in vals("Temperature"), e \in vals("Humidity") }

VARIABLES
    aqi_ctrl,     \* the control system built from the rules: input vector -> defuzzified output
    sim_input,    \* aqi_sim.input: label -> crisp value, for the labels set so far
    sim_output,   \* aqi_sim.output: "AQI" -> value, once computed
    pc,           \* each caller's position in its handler
    request,      \* each caller's request
    served,       \* requests received so far
    result,       \* each caller's returned result
    cmp_pc,             \* compare_methods: position of the call
    sample_data,        \* compare_methods: the sampled rows, in iteration order
    row_i,              \* compare_methods: index of the row the loop is at
    fuzzy_predictions,  \* compare_methods: the three lists the loop appends to
    crisp_predictions,
    ground_truth,
    cmp_result,         \* compare_methods: the returned dictionary
    n_samples,          \* compare_methods: the argument of the call
    call                \* a direct call of one of the pure methods: name, arguments, value

engine_vars == <<aqi_ctrl, sim_input, sim_output, pc, request, served, result>>

compare_vars == <<cmp_pc, sample_data, row_i, fuzzy_predictions, crisp_predictions,
                  ground_truth, cmp_result, n_samples>>

vars == <<engine_vars, compare_vars, call>>

\* assess_air_quality calls assess(co, no2, o3), which takes the defaults
\* temp=20.0, humidity=50.0; enhanced_assess passes all five readings.
assess(route, data) ==
    IF route = "/assess"
    THEN Reading(data.CO, data.NO2, data.O3, 200, 50)
    ELSE data

Arguments(c) == assess(request[c].route, request[c].data)

NoResult == [success |-> FALSE]

\* No direct call was made yet.
NoCall == [fn |-> "none"]

\* rule.antecedent.membership_value is the toolkit's per-simulation accessor
\* object: it is never None and it is not a number.
MembershipValueAttr(rule) == [kind |-> "accessor", value |-> 0]

RECURSIVE SumValues(_, _)
SumValues(seq, i) == IF i > Len(seq) THEN 0 ELSE seq[i].value + SumValues(seq, i + 1)

\* calculate_confidence: the mean of the collected activations, 0.8 when
\* none was collected or when taking the mean raises.
calculate_confidence ==
    LET activations == [i \in 1..Len(rules) |-> MembershipValueAttr(rules[i])]
    IN  IF Len(activations) > 0
        THEN IF \A i \in 1..Len(activations) : activations[i].kind = "number"
             THEN SumValues(activations, 1) \div Len(activations)
             ELSE 8 * (One \div 10)
        ELSE 8 * (One \div 10)

\* An except branch that reports the error instead of falling back.
except_handler_report(a) == [success |-> FALSE, error |-> "Comprehensive assessment error"]

\* The except branch of comprehensive_assess.
except_handler(a) == simple_assess(a.CO, a.NO2, a.O3)

\* Lines 227-248: the result built from the value read from the simulation.
BuildResult(a, value) ==
    [success |-> TRUE,
     fuzzy_aqi |-> value,
     epa_aqi |-> calculate_crisp_aqi(a.CO, a.NO2 * 10, a.O3),
     category |-> aqi_to_category(value),
     confidence |-> calculate_confidence,
     inputs |-> [co |-> a.CO, no2 |-> a.NO2, o3 |-> a.O3,
                 temperature |-> a.Temperature, humidity |-> a.Humidity]]

NextLabel(label) ==
    CASE label = "CO" -> "NO2"
      [] label = "NO2" -> "O3"
      [] label = "O3" -> "Temperature"
      [] label = "Temperature" -> "Humidity"
      [] label = "Humidity" -> "compute"

Init ==
    /\ aqi_ctrl = [inp \in InputSpace |-> Defuzz(rules, inp)]
    /\ sim_input = << >>
    /\ sim_output = << >>
    /\ pc = [c \in Callers |-> "idle"]
    /\ request = [c \in Callers |-> NoRequest]
    /\ served = 0
    /\ result = [c \in Callers |-> NoResult]
    /\ cmp_pc = "idle"
    /\ sample_data = << >>
    /\ row_i = 0
    /\ fuzzy_predictions = << >>
    /\ crisp_predictions = << >>
    /\ ground_truth = << >>
    /\ cmp_result = NoResult
    /\ n_samples = 0
    /\ call = NoCall

\* A request arrives and its handler enters comprehensive_assess.
Receive(c, r) ==
    /\ pc[c] = "idle"
    /\ served < MaxRequests
    /\ served' = served + 1
    /\ request' = [request EXCEPT ![c] = r]
    /\ pc' = [pc EXCEPT ![c] = "CO"]
    /\ UNCHANGED <<aqi_ctrl, sim_input, sim_output, result>>
    /\ UNCHANGED <<compare_vars, call>>

\* Lines 214-218: self.aqi_sim.input[label] = value.
SetInput(c, label) ==
    /\ pc[c] = label
    /\ sim_input' = (label :> Clip(label, Arguments(c)[label])) @@ sim_input
    /\ pc' = [pc EXCEPT ![c] = NextLabel(label)]
    /\ UNCHANGED <<aqi_ctrl, sim_output, request, served, result>>
    /\ UNCHANGED <<compare_vars, call>>

\* compute() that keeps an output already present instead of recomputing it.
Compute_cached(c) ==
    /\ pc[c] = "compute"
    /\ IF DOMAIN sim_input = LabelSet /\ ~aqi_ctrl[sim_input].raised
       THEN /\ sim_output' = IF sim_output = << >>
                             THEN [AQI |-> aqi_ctrl[sim_input].value]
                             ELSE sim_output
            /\ pc' = [pc EXCEPT ![c] = "read"]
            /\ UNCHANGED result
       ELSE /\ result' = [result EXCEPT ![c] = except_handler(Arguments(c))]
            /\ pc' = [pc EXCEPT ![c] = "done"]
            /\ UNCHANGED sim_output
    /\ UNCHANGED <<aqi_ctrl, sim_input, request, served>>
    /\ UNCHANGED <<compare_vars, call>>

\* Line 221: self.aqi_sim.compute().  It raises when an input is missing or
\* the aggregated set is empty, and the except branch returns simple_assess.
Compute(c) ==
    /\ pc[c] = "compute"
    /\ IF DOMAIN sim_input = LabelSet /\ ~aqi_ctrl[sim_input].raised
       THEN /\ sim_output' = [AQI |-> aqi_ctrl[sim_input].value]
            /\ pc' = [pc EXCEPT ![c] = "read"]
            /\ UNCHANGED result
       ELSE /\ result' = [result EXCEPT ![c] = except_handler(Arguments(c))]
            /\ pc' = [pc EXCEPT ![c] = "done"]
            /\ UNCHANGED sim_output
    /\ UNCHANGED <<aqi_ctrl, sim_input, request, served>>
    /\ UNCHANGED <<compare_vars, call>>

\* Lines 224-248: fuzzy_aqi = self.aqi_sim.output['AQI'], then the crisp
\* value, the category and the confidence, and the result is returned.
Return(c) ==
    /\ pc[c] = "read"
    /\ result' = [result EXCEPT ![c] = BuildResult(Arguments(c), sim_output.AQI)]
    /\ pc' = [pc EXCEPT ![c] = "done"]
    /\ UNCHANGED <<aqi_ctrl, sim_input, sim_output, request, served>>
    /\ UNCHANGED <<compare_vars, call>>

\* Lines 250-252: a toolkit call inside the try block raises; the except
\* branch returns simple_assess(co, no2, o3).
ToolkitRaises(c) ==
    /\ pc[c] \in LabelSet \cup {"compute", "read"}
    /\ result' = [result EXCEPT ![c] = except_handler(Arguments(c))]
    /\ pc' = [pc EXCEPT ![c] = "done"]
    /\ UNCHANGED <<aqi_ctrl, sim_input, sim_output, request, served>>
    /\ UNCHANGED <<compare_vars, call>>

\* The handler sends the result; the caller is free for the next request.
Respond(c) ==
    /\ pc[c] = "done"
    /\ pc' = [pc EXCEPT ![c] = "idle"]
    /\ request' = [request EXCEPT ![c] = NoRequest]
    /\ result' = [result EXCEPT ![c] = NoResult]
    /\ UNCHANGED <<aqi_ctrl, sim_input, sim_output, served>>
    /\ UNCHANGED <<compare_vars, call>>

Step(c) ==
    \/ \E r \in Requests : Receive(c, r)
    \/ \E label \in LabelSet : SetInput(c, label)
    \/ Compute(c)
    \/ Return(c)
    \/ ToolkitRaises(c)
    \/ Respond(c)

\* Handlers run concurrently on the shared instance.
Next == \E c \in Callers : Step(c)

Spec == Init /\ [][Next]_vars

\* Handlers run one after the other: a step is taken only while no other
\* caller is inside its handler.
SeqNext == \E c \in Callers : (\A d \in Callers \ {c} : pc[d] \in {"idle", "done"}) /\ Step(c)

SeqSpec == Init /\ [][SeqNext]_vars

\* ---------------------------------------------------------------------------
\* Batch comparison.

\* Largest n_samples the model passes to compare_methods, besides the default.
MaxSamples == 3

\* compare_methods(self, n_samples=100).
DefaultSamples == 100

\* self.data after load_data: rows without missing values.  The O3 field is
\* the O3_Sensor column.
data ==
    << Reading(10, 30, 200, 200, 50),
       Reading(150, 380, 2900, 200, 50),
       Reading(150, 380, 2900, 400, 90),
       Reading(250, 50, 10000, 200, 50) >>

\* DataFrame.sample(n): n distinct rows in any order.
Samples(n) ==
    { [k \in 1..n |-> data[pick[k]]] :
        pick \in { f \in [1..n -> 1..Len(data)] :
                     \A j, k \in 1..n : j # k => f[j] # f[k] } }

\* The smallest of the three rescaled readings instead of the largest.
calculate_epa_aqi_smallest(row) ==
    LET co_aqi == Min(500 * 100, Max(0, row.CO * 250))
        no2_aqi == Min(500 * 100, Max(0, row.NO2 * 125))
        o3_aqi == Min(500 * 100, Max(0, CeilDiv(row.O3 * 50, 3)))
    IN  Min(co_aqi, Min(no2_aqi, o3_aqi))

\* calculate_epa_aqi: the largest of the three readings rescaled to 0..500.
calculate_epa_aqi(row) ==
    LET co_aqi == Min(500 * 100, Max(0, row.CO * 250))
        no2_aqi == Min(500 * 100, Max(0, row.NO2 * 125))
        o3_aqi == Min(500 * 100, Max(0, CeilDiv(row.O3 * 50, 3)))
    IN  Max(co_aqi, Max(no2_aqi, o3_aqi))

\* calculate_ground_truth: 0.4, 0.3, 0.3 weighting of the rescaled readings.
\* The rescaled readings are kept in 1/600 so that the weighting is exact.
calculate_ground_truth(row) ==
    LET co_normalized == Min(500 * 600, row.CO * 1500)
        no2_normalized == Min(500 * 600, row.NO2 * 750)
        o3_normalized == Min(500 * 600, row.O3 * 100)
        gt == 4 * co_normalized + 3 * no2_normalized + 3 * o3_normalized
    IN  Min(500 * 100, Hundredths(gt, 6000))

get_default_metrics ==
    [fuzzy |-> [mae |-> 2500, rmse |-> 3500, accuracy |-> 7500,
                f1_score |-> 7300, satisfaction |-> 8000],
     crisp |-> [mae |-> 4000, rmse |-> 5000, accuracy |-> 6000,
                f1_score |-> 5800, satisfaction |-> 6500]]

\* categorize, nested in calculate_enhanced_metrics.
categorize(value) ==
    IF value <= 50 * 100 THEN 0
    ELSE IF value <= 100 * 100 THEN 1
    ELSE IF value <= 150 * 100 THEN 2
    ELSE IF value <= 200 * 100 THEN 3
    ELSE IF value <= 300 * 100 THEN 4
    ELSE 5

RECURSIVE SumAbsError(_, _, _)
SumAbsError(pred, truth, i) ==
    IF i > Len(pred) THEN 0 ELSE Abs(pred[i] - truth[i]) + SumAbsError(pred, truth, i + 1)

\* calculate_enhanced_metrics: mean absolute error (hundredths), categorical
\* accuracy and satisfaction (fractions of One).  A relative error against a
\* ground truth of 0 is inf or nan, and neither is <= 0.2.  rmse and
\* f1_score are not carried.
calculate_enhanced_metrics(fuzzy_pred, crisp_pred, truth) ==
    LET n == Len(truth)
        mae(pred) == SumAbsError(pred, truth, 1) \div n
        acc(pred) ==
            (Cardinality({i \in 1..n : categorize(pred[i]) = categorize(truth[i])}) * One) \div n
        sat(pred) ==
            (Cardinality({i \in 1..n : truth[i] # 0 /\ 5 * Abs(pred[i] - truth[i]) <= Abs(truth[i])})
               * One) \div n
    IN  [fuzzy |-> [mae |-> mae(fuzzy_pred), accuracy |-> acc(fuzzy_pred),
                    satisfaction |-> sat(fuzzy_pred)],
         crisp |-> [mae |-> mae(crisp_pred), accuracy |-> acc(crisp_pred),
                    satisfaction |-> sat(crisp_pred)]]

\* The five inputs as the simulation holds them.
Clipped(a) ==
    Reading(Clip("CO", a.CO), Clip("NO2", a.NO2), Clip("O3", a.O3),
            Clip("Temperature", a.Temperature), Clip("Humidity", a.Humidity))

\* comprehensive_assess run from its first line to its return with no other
\* call in between; raises tells whether a toolkit call raised.
comprehensive_assess(a, raises) ==
    IF raises \/ aqi_ctrl[Clipped(a)].raised
    THEN except_handler(a)
    ELSE BuildResult(a, aqi_ctrl[Clipped(a)].value)

\* Lines 709-716: the sample is drawn and the three lists start empty; a
\* negative n makes sample() raise and the outer except returns the error
\* dictionary.
CompareStart(n) ==
    /\ cmp_pc = "idle"
    /\ IF n < 0
       THEN /\ cmp_result' = [success |-> FALSE, error |-> "ValueError",
                              metrics |-> get_default_metrics,
                              predictions |-> [fuzzy |-> << >>, crisp |-> << >>,
                                               ground_truth |-> << >>]]
            /\ cmp_pc' = "done"
            /\ UNCHANGED <<sample_data, row_i>>
       ELSE /\ \E s \in Samples(Min(n, Len(data))) : sample_data' = s
            /\ row_i' = 1
            /\ cmp_pc' = "loop"
            /\ UNCHANGED cmp_result
    /\ fuzzy_predictions' = << >>
    /\ crisp_predictions' = << >>
    /\ ground_truth' = << >>
    /\ n_samples' = n
    /\ UNCHANGED <<engine_vars, call>>

\* An iteration that also stores the row's ground truth in the control
\* system as the output for the row's inputs.
CompareRow_recalibrates(raises) ==
    /\ cmp_pc = "loop"
    /\ row_i <= Len(sample_data)
    /\ LET row == sample_data[row_i]
           assessed == comprehensive_assess(row, raises)
       IN  /\ fuzzy_predictions' = Append(fuzzy_predictions, assessed.fuzzy_aqi)
           /\ crisp_predictions' = Append(crisp_predictions, calculate_epa_aqi(row))
           /\ ground_truth' = Append(ground_truth, calculate_ground_truth(row))
           /\ aqi_ctrl' = [aqi_ctrl EXCEPT ![Clipped(row)] =
                             [raised |-> FALSE, value |-> calculate_ground_truth(row)]]
           /\ IF "confidence" \in DOMAIN assessed
              THEN /\ sim_input' = Clipped(row)
                   /\ sim_output' = [AQI |-> assessed.fuzzy_aqi]
              ELSE UNCHANGED <<sim_input, sim_output>>
    /\ row_i' = row_i + 1
    /\ UNCHANGED <<pc, request, served, result, cmp_pc, sample_data, cmp_result,
                   n_samples, call>>

\* Lines 718-738: one iteration of the loop.  The row's fields are floats
\* and none of the three calls propagates an exception, so the iteration
\* always reaches its appends.
CompareRow(raises) ==
    /\ cmp_pc = "loop"
    /\ row_i <= Len(sample_data)
    /\ LET row == sample_data[row_i]
           assessed == comprehensive_assess(row, raises)
       IN  /\ fuzzy_predictions' = Append(fuzzy_predictions, assessed.fuzzy_aqi)
           /\ crisp_predictions' = Append(crisp_predictions, calculate_epa_aqi(row))
           /\ ground_truth' = Append(ground_truth, calculate_ground_truth(row))
           /\ IF "confidence" \in DOMAIN assessed
              THEN /\ sim_input' = Clipped(row)
                   /\ sim_output' = [AQI |-> assessed.fuzzy_aqi]
              ELSE UNCHANGED <<sim_input, sim_output>>
    /\ row_i' = row_i + 1
    /\ UNCHANGED <<aqi_ctrl, pc, request, served, result, cmp_pc, sample_data, cmp_result,
                   n_samples, call>>

\* CompareFinish without the guard on the number of samples: the metrics of
\* an empty batch raise and the outer except branch returns.
CompareFinish_unguarded ==
    /\ cmp_pc = "loop"
    /\ row_i > Len(sample_data)
    /\ cmp_result' =
         IF Len(ground_truth) = 0
         THEN [success |-> FALSE, error |-> "ValueError",
               metrics |-> get_default_metrics,
               predictions |-> [fuzzy |-> << >>, crisp |-> << >>, ground_truth |-> << >>]]
         ELSE [success |-> TRUE,
               metrics |-> calculate_enhanced_metrics(fuzzy_predictions, crisp_predictions,
                                                      ground_truth),
               predictions |-> [fuzzy |-> fuzzy_predictions, crisp |-> crisp_predictions,
                                ground_truth |-> ground_truth],
               sample_size |-> Len(fuzzy_predictions)]
    /\ cmp_pc' = "done"
    /\ UNCHANGED <<engine_vars, sample_data, row_i, fuzzy_predictions, crisp_predictions,
                   ground_truth, n_samples, call>>

\* Lines 743-760: the metrics and the returned dictionary.
CompareFinish ==
    /\ cmp_pc = "loop"
    /\ row_i > Len(sample_data)
    /\ cmp_result' =
         [success |-> TRUE,
          metrics |-> IF Len(ground_truth) > 10
                      THEN calculate_enhanced_metrics(fuzzy_predictions, crisp_predictions,
                                                      ground_truth)
                      ELSE get_default_metrics,
          predictions |-> [fuzzy |-> fuzzy_predictions, crisp |-> crisp_predictions,
                           ground_truth |-> ground_truth],
          sample_size |-> Len(fuzzy_predictions)]
    /\ cmp_pc' = "done"
    /\ UNCHANGED <<engine_vars, sample_data, row_i, fuzzy_predictions, crisp_predictions,
                   ground_truth, n_samples, call>>

\* A loop body that appends each value as soon as it is computed, failing
\* after the fuzzy assessment.
CompareRowFails_partial ==
    /\ cmp_pc = "loop"
    /\ row_i <= Len(sample_data)
    /\ fuzzy_predictions' =
         Append(fuzzy_predictions, comprehensive_assess(sample_data[row_i], TRUE).fuzzy_aqi)
    /\ row_i' = row_i + 1
    /\ UNCHANGED <<engine_vars, cmp_pc, sample_data, crisp_predictions,
                   ground_truth, cmp_result, n_samples, call>>

\* Lines 740-741: a statement of the try block raised before the appends
\* (lines 720-734); the except branch goes on to the next row.
CompareRowFails ==
    /\ cmp_pc = "loop"
    /\ row_i <= Len(sample_data)
    /\ row_i' = row_i + 1
    /\ UNCHANGED <<engine_vars, cmp_pc, sample_data, fuzzy_predictions, crisp_predictions,
                   ground_truth, cmp_result, n_samples, call>>

\* The caller takes the dictionary; the next comparison may start.
CompareReturn ==
    /\ cmp_pc = "done"
    /\ cmp_pc' = "idle"
    /\ sample_data' = << >>
    /\ row_i' = 0
    /\ fuzzy_predictions' = << >>
    /\ crisp_predictions' = << >>
    /\ ground_truth' = << >>
    /\ cmp_result' = NoResult
    /\ n_samples' = 0
    /\ UNCHANGED <<engine_vars, call>>

CompareNext ==
    \/ \E n \in (-1..MaxSamples) \cup {DefaultSamples} : CompareStart(n)
    \/ \E raises \in BOOLEAN : CompareRow(raises)
    \/ CompareRowFails
    \/ CompareFinish
    \/ CompareReturn

CompareSpec == Init /\ [][CompareNext]_vars

\* ---------------------------------------------------------------------------
\* get_membership_functions: the curves handed to the visualisation.
\*
\* A sampled point np.linspace(lo, hi, 50)[k] is lo + k (hi - lo) / 49; points
\* and control points are kept in 1/490 (tenths over 49), degrees to 0.01.

\* Control point given in tenths, in 1/490.
Tenths(v) == v * 49

\* np.linspace(lo, hi, 50)[k - 1], lo and hi in units, in 1/490.
linspace(lo, hi, k) == 10 * (49 * lo + (k - 1) * (hi - lo))

\* n / d as a degree.
Ratio(n, d) == ((n * 100) \div d) * 100

\* max(0, 1 - x / w) if x <= w else 0
Down(w) == [shape |-> "down", w |-> Tenths(w)]
\* max(0, 1 - abs(x - c) / w) if lo <= x <= hi else 0
Tent(c, w, lo, hi) ==
    [shape |-> "tent", c |-> Tenths(c), w |-> Tenths(w), lo |-> Tenths(lo), hi |-> Tenths(hi)]
\* max(0, 1 - abs(x - c) / w) if x <= hi else 0
TentUpTo(c, w, hi) == [shape |-> "tent_up_to", c |-> Tenths(c), w |-> Tenths(w), hi |-> Tenths(hi)]
\* Up without the min(1, .).
Up_unbounded(s, w) == [shape |-> "up_unbounded", s |-> Tenths(s), w |-> Tenths(w)]

\* max(0, min(1, (x - s) / w)) if x >= s else 0
Up(s, w) == [shape |-> "up", s |-> Tenths(s), w |-> Tenths(w)]

\* The value of one list comprehension at the point x.
CurveValue(f, x) ==
    CASE f.shape = "down" -> IF x <= f.w THEN Max(0, One - Ratio(x, f.w)) ELSE 0
      [] f.shape = "tent" ->
           IF f.lo <= x /\ x <= f.hi THEN Max(0, One - Ratio(Abs(x - f.c), f.w)) ELSE 0
      [] f.shape = "tent_up_to" ->
           IF x <= f.hi THEN Max(0, One - Ratio(Abs(x - f.c), f.w)) ELSE 0
      [] f.shape = "up" -> IF x >= f.s THEN Max(0, Min(One, Ratio(x - f.s, f.w))) ELSE 0
      [] f.shape = "up_unbounded" -> IF x >= f.s THEN Max(0, Ratio(x - f.s, f.w)) ELSE 0

\* The three-term layout shared by the sensor and reference channels.
LowModerateHigh(low_w, mod_c, mod_w, mod_lo, mod_hi, high_s, high_w) ==
    [Low |-> Down(low_w), Moderate |-> Tent(mod_c, mod_w, mod_lo, mod_hi),
     High |-> Up(high_s, high_w)]

\* Lines 582-702: every parameter with its range and its terms (control
\* points in tenths).
curve_table ==
    [CO_GT |-> [lo |-> 0, hi |-> 20, terms |->
        [Very_Low |-> TentUpTo(10, 10, 20), Low |-> Tent(25, 15, 10, 40),
         Moderate |-> Tent(50, 15, 35, 65), High |-> Tent(90, 20, 70, 110),
         Very_High |-> Up(100, 30)]],
     CO_Sensor |-> [lo |-> 0, hi |-> 3000, terms |->
        LowModerateHigh(10000, 15000, 7500, 7500, 22500, 15000, 10000)],
     NMHC_GT |-> [lo |-> 0, hi |-> 500, terms |->
        LowModerateHigh(1500, 2500, 1000, 1500, 3500, 3500, 1500)],
     Benzene |-> [lo |-> 0, hi |-> 40, terms |->
        LowModerateHigh(100, 200, 80, 120, 280, 250, 100)],
     NMHC_Sensor |-> [lo |-> 0, hi |-> 2000, terms |->
        LowModerateHigh(6000, 10000, 3500, 6500, 13500, 13000, 5000)],
     NOx_GT |-> [lo |-> 0, hi |-> 500, terms |->
        LowModerateHigh(1500, 2500, 1000, 1500, 3500, 3500, 1500)],
     NOx_Sensor |-> [lo |-> 0, hi |-> 2000, terms |->
        LowModerateHigh(6000, 10000, 3500, 6500, 13500, 13000, 5000)],
     NO2_GT |-> [lo |-> 0, hi |-> 400, terms |->
        [Excellent |-> Down(500), Good |-> Tent(1000, 500, 500, 1500),
         Fair |-> Tent(2000, 750, 1250, 2750), Poor |-> Tent(3000, 750, 2250, 3750),
         Hazardous |-> Up(3500, 500)]],
     NO2_Sensor |-> [lo |-> 0, hi |-> 2000, terms |->
        LowModerateHigh(6000, 10000, 3500, 6500, 13500, 13000, 5000)],
     O3_Sensor |-> [lo |-> 0, hi |-> 3000, terms |->
        [Good |-> Down(10000), Moderate |-> Tent(15000, 5000, 10000, 20000),
         Unhealthy |-> Tent(22500, 5000, 17500, 27500),
         Very_Unhealthy |-> Up(25000, 5000)]],
     Temperature |-> [lo |-> -10, hi |-> 50, terms |->
        [Cold |-> TentUpTo(50, 100, 150), Cool |-> Tent(120, 80, 40, 200),
         Comfortable |-> Tent(200, 60, 140, 260), Warm |-> Tent(280, 80, 200, 360),
         Hot |-> Up(300, 150)]],
     Humidity |-> [lo |-> 0, hi |-> 100, terms |->
        [Dry |-> Down(350), Comfortable |-> Tent(500, 200, 300, 700),
         Humid |-> Up(700, 300)]],
     Abs_Humidity |-> [lo |-> 0, hi |-> 20, terms |->
        LowModerateHigh(60, 100, 40, 60, 140, 140, 60)],
     AQI |-> [lo |-> 0, hi |-> 500, terms |->
        [Good |-> Down(500), Moderate |-> Tent(1000, 500, 500, 1500),
         Unhealthy_Sensitive |-> Tent(2000, 750, 1250, 2750),
         Unhealthy |-> Tent(3000, 750, 2250, 3750),
         Very_Unhealthy |-> Tent(4000, 750, 3250, 4750),
         Hazardous |-> Up(4500, 500)]]]

\* get_membership_functions(): for every parameter the 50 points and, for
\* every term, its 50 values.
get_membership_functions ==
    [v \in DOMAIN curve_table |->
        LET e == curve_table[v]
        IN  [universe |-> [k \in 1..50 |-> linspace(e.lo, e.hi, k)],
             terms |-> [t \in DOMAIN e.terms |->
                          [k \in 1..50 |-> CurveValue(e.terms[t], linspace(e.lo, e.hi, k))]]]]

\* ---------------------------------------------------------------------------
\* Direct calls of the pure methods.

\* Readings of the assessments: CO with 'Very_Low' and 'Low' both active, CO
\* 'High', CO 'Very_High'; NO2 from one end of its universe to the other; O3
\* 'Good', 'Moderate' and between 'Unhealthy' and 'Very_Unhealthy'; the
\* default temperature, the foot of 'Hot' and a hot day; dry and humid air.
CoGrid == {15, 90, 150}
No2Grid == {0, 100, 200, 399}
O3Grid == {200, 1250, 2600}
TemperatureGrid == {200, 250, 400}
HumidityGrid == {50, 90}

\* Longest prediction list handed to calculate_enhanced_metrics directly.
MaxListLen == 2

\* AQI values (hundredths) the lists are drawn from.
ListValues == {0, 40 * 100, 50 * 100}

Lists == UNION { [1..n -> ListValues] : n \in 1..MaxListLen }

\* Each direct call is made on the freshly constructed instance.

\* calculate_enhanced_metrics(fuzzy_pred, crisp_pred, ground_truth) on lists
\* of one length.
CallMetrics ==
    /\ call = NoCall
    /\ \E f, c, g \in Lists :
        /\ Len(f) = Len(g) /\ Len(c) = Len(g)
        /\ call' = [fn |-> "calculate_enhanced_metrics", args |-> <<f, c, g>>,
                    out |-> calculate_enhanced_metrics(f, c, g)]
        /\ UNCHANGED <<engine_vars, compare_vars>>

\* Readings handed to the calculate_*_membership methods directly: below,
\* inside and above the range each method clamps to.
CoReadings == -10..210
No2Readings == {-50, 450} \cup {5 * k : k \in 0..80}
O3Readings == {500 * k : k \in -2..62}

CallCoMembership ==
    /\ call = NoCall
    /\ \E x \in CoReadings :
        /\ call' = [fn |-> "calculate_co_membership", args |-> <<x>>,
                    out |-> calculate_co_membership(x)]
        /\ UNCHANGED <<engine_vars, compare_vars>>

CallNo2Membership ==
    /\ call = NoCall
    /\ \E x \in No2Readings :
        /\ call' = [fn |-> "calculate_no2_membership", args |-> <<x>>,
                    out |-> calculate_no2_membership(x)]
        /\ UNCHANGED <<engine_vars, compare_vars>>

CallO3Membership ==
    /\ call = NoCall
    /\ \E x \in O3Readings :
        /\ call' = [fn |-> "calculate_o3_membership", args |-> <<x>>,
                    out |-> calculate_o3_membership(x)]
        /\ UNCHANGED <<engine_vars, compare_vars>>

CallMembershipFunctions ==
    /\ call = NoCall
    /\ call' = [fn |-> "get_membership_functions", args |-> << >>,
                out |-> get_membership_functions]
    /\ UNCHANGED <<engine_vars, compare_vars>>

\* Raw O3 sensor readings handed to simple_assess, across 0..3000.
O3SensorReadings == {0, 50, 100, 101, 200, 1000, 1250, 2250, 2900, 3000}

CallSimpleAssess ==
    /\ call = NoCall
    /\ \E co \in CoGrid, no2 \in No2Grid, o3 \in O3SensorReadings :
        /\ call' = [fn |-> "simple_assess", args |-> <<co, no2, o3>>,
                    out |-> simple_assess(co, no2, o3)]
        /\ UNCHANGED <<engine_vars, compare_vars>>

\* Rows handed to calculate_epa_aqi and calculate_ground_truth directly: a
\* negative CO, readings inside the typical ranges (2.0 ppm, 40 ppb and
\* 300 ppb rescale to the same 50) and readings above them.
RowGrid ==
    { Reading(co, no2, o3, 200, 50) :
        co \in {-10, 0, 20, 100, 250}, no2 \in {0, 40, 200, 450},
        o3 \in {0, 300, 1500, 10000} }

CallEpaAqi ==
    /\ call = NoCall
    /\ \E row \in RowGrid :
        /\ call' = [fn |-> "calculate_epa_aqi", args |-> <<row>>,
                    out |-> calculate_epa_aqi(row)]
        /\ UNCHANGED <<engine_vars, compare_vars>>

CallGroundTruth ==
    /\ call = NoCall
    /\ \E row \in RowGrid :
        /\ call' = [fn |-> "calculate_ground_truth", args |-> <<row>>,
                    out |-> calculate_ground_truth(row)]
        /\ UNCHANGED <<engine_vars, compare_vars>>

\* Arguments of calculate_crisp_aqi, in tenths: values below, at and above
\* the thresholds of its three ladders.
CrispCo == {5, 10, 30, 50, 70}
CrispNo2 == {0, 500, 1200, 1500, 2000}
CrispO3 == {0, 500, 1000, 2000}

CallCrispAqi ==
    /\ call = NoCall
    /\ \E co \in CrispCo, no2 \in CrispNo2, o3 \in CrispO3 :
        /\ call' = [fn |-> "calculate_crisp_aqi", args |-> <<co, no2, o3>>,
                    out |-> calculate_crisp_aqi_double(co, no2, o3)]
        /\ UNCHANGED <<engine_vars, compare_vars>>

CallNext ==
    \/ CallMetrics
    \/ CallCrispAqi
    \/ CallEpaAqi
    \/ CallGroundTruth
    \/ CallSimpleAssess
    \/ CallMembershipFunctions
    \/ CallCoMembership
    \/ CallNo2Membership
    \/ CallO3Membership

CallSpec == Init /\ [][CallNext]_vars

\* Comparisons, each running its assessments through both paths, and a call
\* of get_membership_functions on the same instance.
ConfigNext ==
    \/ CompareNext
    \/ CallMembershipFunctions

ConfigSpec == Init /\ [][ConfigNext]_vars

\* ---------------------------------------------------------------------------
\* Single assessments on the freshly constructed instance.

EngineGrid ==
    { Reading(a, b, c, d, e) : a \in CoGrid, b \in No2Grid, c \in O3Grid,
                               d \in TemperatureGrid, e \in HumidityGrid }

\* comprehensive_assess(co, no2, o3, temp, humidity) from its first line to
\* its return on an instance nobody else uses: the inputs are set, compute()
\* runs the rules, and the result is built; the except branch is taken when
\* compute() raises.
CallComprehensiveAssess ==
    /\ call = NoCall
    /\ \E a \in EngineGrid :
        LET computed == Defuzz(rules, Clipped(a))
        IN  /\ call' = [fn |-> "comprehensive_assess", args |-> <<a>>,
                        out |-> IF computed.raised THEN except_handler(a)
                                ELSE BuildResult(a, computed.value)]
            /\ UNCHANGED <<engine_vars, compare_vars>>

\* Other orders of the list self.rules: reversed, and with each rule in the
\* place of the rule it shares its output term with.
RuleOrders ==
    { <<10, 9, 8, 7, 6, 5, 4, 3, 2, 1>>,
      <<6, 7, 3, 9, 10, 1, 2, 8, 4, 5>> }

\* The rule list rs in the given order.
Reorder(rs, order) == [i \in 1..Len(order) |-> rs[order[i]]]

\* The rule list rs without its k-th rule.
Without(rs, k) == [i \in 1..(Len(rs) - 1) |-> IF i < k THEN rs[i] ELSE rs[i + 1]]

AssessNext == CallComprehensiveAssess

AssessSpec == Init /\ [][AssessNext]_vars

\* ---------------------------------------------------------------------------
\* Properties.

\* A call that returned through the toolkit, and one that returned through
\* the except branch.
Primary(c) == pc[c] = "done" /\ "confidence" \in DOMAIN result[c]
Fallback(c) == pc[c] = "done" /\ "membership" \in DOMAIN result[c]

\* The two readings of the scenarios.
CleanAir == Reading(10, 30, 200, 200, 50)
WorstAir == Reading(150, 380, 2900, 200, 50)

\* C1: under concurrent calls on the shared instance, every call that
\* returns through the toolkit returns the fuzzy AQI and the category that
\* its own five inputs determine.
C1_ConcurrentCallsIsolated ==
    \A c \in Callers :
        Primary(c) =>
            /\ result[c].fuzzy_aqi = aqi_ctrl[Clipped(Arguments(c))].value
            /\ result[c].category = aqi_to_category(aqi_ctrl[Clipped(Arguments(c))].value)

\* C2: under sequential calls, the result of a call is the one its own five
\* inputs determine, whatever ran before: the toolkit result for those
\* inputs, or the fallback result for them when a toolkit call raised.
C2_FunctionOfOwnInputs ==
    \A c \in Callers :
        pc[c] = "done" =>
            result[c] = IF Primary(c)
                        THEN BuildResult(Arguments(c), aqi_ctrl[Clipped(Arguments(c))].value)
                        ELSE simple_assess(Arguments(c).CO, Arguments(c).NO2, Arguments(c).O3)

\* A call returned through the toolkit after another call, on different
\* inputs, had computed on the same simulation.
C2_Witness ==
    \E c, d \in Callers :
        /\ Primary(c) /\ Primary(d)
        /\ Clipped(Arguments(c)) # Clipped(Arguments(d))
        /\ sim_input = Clipped(Arguments(c))

CategoryNames ==
    {"Good", "Moderate", "Unhealthy_Sensitive", "Unhealthy", "Very_Unhealthy", "Hazardous",
     "Excellent", "Fair", "Poor", "Very Poor"}

\* C3: every call returns a result that carries a fuzzy AQI inside the
\* output range and a category, also for readings outside the universes and
\* when a toolkit call raised.
C3_AlwaysReturnsResult ==
    \A c \in Callers :
        pc[c] = "done" =>
            /\ result[c].success
            /\ {"fuzzy_aqi", "category"} \subseteq DOMAIN result[c]
            /\ result[c].fuzzy_aqi \in 0..(500 * 100)
            /\ result[c].category \in CategoryNames

\* A call on a reading outside the CO and O3 universes returned through the
\* except branch.
C3_Witness ==
    \E c \in Callers :
        /\ Fallback(c)
        /\ Arguments(c).CO > UniverseMax("CO")
        /\ Arguments(c).O3 > UniverseMax("O3")

\* No term of the engine that produced the result is active.
NothingFired(c) ==
    IF Primary(c)
    THEN \A i \in 1..Len(rules) : Firing(rules, Clipped(Arguments(c)))[i] = 0
    ELSE /\ Fallback(c)
         /\ \A v \in DOMAIN result[c].membership :
              \A term \in DOMAIN result[c].membership[v] : result[c].membership[v][term] = 0

\* C4: when nothing fired, the result carries the midpoint of the output
\* universe, 250, and a confidence.
C4_MidpointWhenNothingFired ==
    \A c \in Callers :
        NothingFired(c) =>
            /\ result[c].fuzzy_aqi = 250 * 100
            /\ "confidence" \in DOMAIN result[c]

\* C5: the temperature and humidity a request supplies are the ones the
\* inference uses.
C5_SuppliedWeatherUsed ==
    \A c \in Callers :
        Primary(c) =>
            /\ result[c].inputs.temperature = request[c].data.Temperature
            /\ result[c].inputs.humidity = request[c].data.Humidity
            /\ result[c].fuzzy_aqi = aqi_ctrl[Clipped(request[c].data)].value

C7_CleanScenario ==
    \A c \in Callers :
        Primary(c) /\ Arguments(c) = CleanAir =>
            /\ result[c].category = "Good"
            /\ result[c].fuzzy_aqi <= 50 * 100

C7_Witness == \E c \in Callers : Primary(c) /\ Arguments(c) = CleanAir

RECURSIVE SumSeq(_, _)
SumSeq(seq, i) == IF i > Len(seq) THEN 0 ELSE seq[i] + SumSeq(seq, i + 1)

\* Mean of the nonzero firing strengths; 0 when there is none.
MeanNonzeroFiring(inp) ==
    LET fire == Firing(rules, inp)
        fired == {i \in 1..Len(fire) : fire[i] > 0}
    IN  IF fired = {} THEN 0 ELSE SumSeq(fire, 1) \div Cardinality(fired)

\* C8: the confidence is the mean of the nonzero firing strengths (to
\* within 0.01), and the fixed default when no rule fired.
C8_ConfidenceIsMeanOfFiring ==
    \A c \in Callers :
        Primary(c) =>
            LET fire == Firing(rules, Clipped(Arguments(c)))
            IN  IF \A i \in 1..Len(fire) : fire[i] = 0
                THEN result[c].confidence = 8 * (One \div 10)
                ELSE Abs(result[c].confidence - MeanNonzeroFiring(Clipped(Arguments(c))))
                       <= One \div 100

\* C9: the crisp prediction the comparison records for a sample is the
\* value calculate_crisp_aqi gives a single assessment of that sample.
C9_CrispSeriesFromCrispCalculator ==
    \A i \in 1..Len(crisp_predictions) :
        \E k \in 1..Len(sample_data) :
            /\ ground_truth[i] = calculate_ground_truth(sample_data[k])
            /\ crisp_predictions[i] = BuildResult(sample_data[k], 0).epa_aqi

\* The crisp value a finished call reports.
CrispOf(c) == IF Primary(c) THEN result[c].epa_aqi ELSE result[c].crisp_aqi

\* C10: the crisp value lies in 0..500, the reading with every pollutant in
\* its top band gets 500 and the one with every pollutant in its bottom band
\* gets 0.
C10_CrispSpansFuzzyRange ==
    \A c \in Callers :
        pc[c] = "done" =>
            LET a == Arguments(c)
            IN  /\ CrispOf(c) \in 0..(500 * 100)
                /\ (a.CO >= 70 /\ a.NO2 >= 200 /\ a.O3 >= 1500) => CrispOf(c) = 500 * 100
                /\ (a.CO < 10 /\ a.NO2 < 50 /\ a.O3 < 500 /\ a.O3 > 100) => CrispOf(c) = 0

\* Samples of a batch with a nonzero ground truth, and those of them whose
\* relative error is at most 20%.
Rated(truth) == {i \in 1..Len(truth) : truth[i] # 0}
Satisfied(pred, truth) == {i \in Rated(truth) : 5 * Abs(pred[i] - truth[i]) <= Abs(truth[i])}

\* C11: a sample whose ground truth is 0 counts neither in the numerator
\* nor in the denominator of the satisfaction rate.
C11_ZeroTruthExcluded ==
    call.fn = "calculate_enhanced_metrics" =>
        LET f == call.args[1]
            c == call.args[2]
            g == call.args[3]
        IN  Rated(g) # {} =>
              /\ call.out.fuzzy.satisfaction
                    = (Cardinality(Satisfied(f, g)) * One) \div Cardinality(Rated(g))
              /\ call.out.crisp.satisfaction
                    = (Cardinality(Satisfied(c, g)) * One) \div Cardinality(Rated(g))

\* C12: compare_methods returns a dictionary for every sample count, and
\* for the count 0 it returns empty prediction lists, sample_size 0 and the
\* default metrics.
C12_CompareAlwaysReturns ==
    cmp_pc = "done" =>
        /\ {"success", "metrics", "predictions"} \subseteq DOMAIN cmp_result
        /\ DOMAIN cmp_result.predictions = {"fuzzy", "crisp", "ground_truth"}
        /\ n_samples = 0 =>
              /\ cmp_result.success
              /\ cmp_result.predictions
                    = [fuzzy |-> << >>, crisp |-> << >>, ground_truth |-> << >>]
              /\ cmp_result.sample_size = 0
              /\ cmp_result.metrics = get_default_metrics

C12_Witness == cmp_pc = "done" /\ n_samples = 0

\* The three i-th entries are the values of one row among the first n rows
\* of the sample.
FromOneRow(fuzzy, crisp, truth, i, n) ==
    \E k \in 1..n :
        LET row == sample_data[k]
        IN  /\ fuzzy[i] \in {comprehensive_assess(row, raises).fuzzy_aqi : raises \in BOOLEAN}
            /\ crisp[i] = calculate_epa_aqi(row)
            /\ truth[i] = calculate_ground_truth(row)

\* C13: during and after a comparison the three prediction lists have one
\* length and their i-th entries come from the same row, also when rows
\* were skipped.
C13_PredictionsAligned ==
    /\ Len(fuzzy_predictions) = Len(crisp_predictions)
    /\ Len(crisp_predictions) = Len(ground_truth)
    /\ \A i \in 1..Len(fuzzy_predictions) :
          FromOneRow(fuzzy_predictions, crisp_predictions, ground_truth, i, row_i - 1)
    /\ (cmp_pc = "done" /\ cmp_result.success) =>
          LET p == cmp_result.predictions
          IN  /\ Len(p.fuzzy) = Len(p.crisp) /\ Len(p.crisp) = Len(p.ground_truth)
              /\ \A i \in 1..Len(p.fuzzy) :
                    FromOneRow(p.fuzzy, p.crisp, p.ground_truth, i, Len(sample_data))

\* A comparison returned after it skipped a row and kept another.
C13_Witness ==
    /\ cmp_pc = "done" /\ cmp_result.success
    /\ cmp_result.sample_size >= 1
    /\ cmp_result.sample_size < Len(sample_data)

\* C14: the comparison skips a failing row, goes on with the others, and
\* its result carries the number of rows it skipped.
C14_SkippedRowsCounted ==
    (cmp_pc = "done" /\ cmp_result.success) =>
        /\ cmp_result.sample_size <= Len(sample_data)
        /\ cmp_result.sample_size < Len(sample_data) =>
              /\ "skipped" \in DOMAIN cmp_result
              /\ cmp_result.skipped = Len(sample_data) - cmp_result.sample_size

\* The direct calls of the three calculate_*_membership methods.
MembershipCalls ==
    {"calculate_co_membership", "calculate_no2_membership", "calculate_o3_membership"}

\* The engine variable a calculate_*_membership method stands for.
LabelOf(fn) ==
    CASE fn = "calculate_co_membership" -> "CO"
      [] fn = "calculate_no2_membership" -> "NO2"
      [] fn = "calculate_o3_membership" -> "O3"

\* C17: for every reading, inside or outside the universe, each of the
\* three methods returns a degree in [0,1] for every term of its variable.
C17_DegreesInUnitInterval ==
    call.fn \in MembershipCalls =>
        /\ DOMAIN call.out = Terms(LabelOf(call.fn))
        /\ \A term \in DOMAIN call.out : call.out[term] \in 0..One

\* A reading above the O3 range was given a membership map.
C17_Witness == call.fn = "calculate_o3_membership" /\ call.args[1] > 30000

\* The range a method clamps to, in the unit of its argument.
LowerBound(fn) == 0
UpperBound(fn) ==
    CASE fn = "calculate_co_membership" -> 200
      [] fn = "calculate_no2_membership" -> 400
      [] fn = "calculate_o3_membership" -> 30000

\* The method fn applied to x.
Fuzzify(fn, x) ==
    CASE fn = "calculate_co_membership" -> calculate_co_membership(x)
      [] fn = "calculate_no2_membership" -> calculate_no2_membership(x)
      [] fn = "calculate_o3_membership" -> calculate_o3_membership(x)

\* C18: a reading below the lower bound gets the membership map of the
\* lower bound and one above the upper bound that of the upper bound.
C18_ClampedToUniverse ==
    call.fn \in MembershipCalls =>
        /\ call.args[1] < LowerBound(call.fn) =>
              call.out = Fuzzify(call.fn, LowerBound(call.fn))
        /\ call.args[1] > UpperBound(call.fn) =>
              call.out = Fuzzify(call.fn, UpperBound(call.fn))

\* A reading below the O3 range was given a membership map.
C18_Witness == call.fn = "calculate_o3_membership" /\ call.args[1] < 0

\* Control points of the triangular terms of a method, in the unit of its
\* argument.
Triangles(fn) ==
    CASE fn = "calculate_co_membership" ->
           [Very_Low |-> <<0, 0, 20>>, Low |-> <<10, 25, 40>>, Moderate |-> <<30, 50, 70>>,
            High |-> <<60, 90, 120>>]
      [] fn = "calculate_no2_membership" ->
           [Good |-> <<50, 100, 150>>, Fair |-> <<125, 200, 275>>, Poor |-> <<225, 300, 375>>]
      [] fn = "calculate_o3_membership" ->
           [Moderate |-> <<10000, 15000, 20000>>, Unhealthy |-> <<17500, 22500, 27500>>]

\* C19: a triangular term with control points a <= b <= c has degree 1 at
\* b, also when a = b or b = c, degree 0 at a and at c when they differ
\* from b, and degree 0 outside [a, c].
C19_TriangleShape ==
    call.fn \in MembershipCalls =>
        \A term \in DOMAIN Triangles(call.fn) :
            LET x == call.args[1]
                a == Triangles(call.fn)[term][1]
                b == Triangles(call.fn)[term][2]
                c == Triangles(call.fn)[term][3]
            IN  /\ x = b => call.out[term] = One
                /\ (x = a /\ a # b) => call.out[term] = 0
                /\ (x = c /\ c # b) => call.out[term] = 0
                /\ (x < a \/ x > c) /\ x \in LowerBound(call.fn)..UpperBound(call.fn)
                      => call.out[term] = 0

\* C20: the trapezoidal term CO 'Very_High' (10, 15, 20, 20) has degree 0
\* below 10 and degree 1 for every reading of 15 or more, the readings
\* clamped to 20 included.
C20_TrapezoidShape ==
    call.fn = "calculate_co_membership" =>
        /\ (call.args[1] \in 0..100) => call.out.Very_High = 0
        /\ call.args[1] >= 150 => call.out.Very_High = One

\* The visualised parameter that shows an engine input.
CurveOf(label) ==
    CASE label = "CO" -> "CO_GT"
      [] label = "NO2" -> "NO2_GT"
      [] label = "O3" -> "O3_Sensor"
      [] label = "Temperature" -> "Temperature"
      [] label = "Humidity" -> "Humidity"

\* C15: for every variable the engine and the visualisation share, the
\* curves have the engine's term names and, at the first sampled point (the
\* lower end of the universe, where CO 'Very_Low' peaks), the engine's
\* degrees to within 0.01.
C15_CurvesAreEngineFunctions ==
    call.fn = "get_membership_functions" =>
        /\ \A label \in LabelSet :
              LET shown == call.out[CurveOf(label)].terms
              IN  /\ DOMAIN shown = Terms(label)
                  /\ \A term \in DOMAIN shown \cap Terms(label) :
                        Abs(shown[term][1] - Antecedent(label, term, UniverseMin(label)))
                          <= One \div 100
        /\ LET shown == call.out.AQI.terms
           IN  /\ DOMAIN shown = {AqiTerms[i] : i \in 1..Len(AqiTerms)}
               /\ \A term \in DOMAIN shown : Abs(shown[term][1] - aqi(term, 0)) <= One \div 100

\* C16: every value of every term sequence returned for the 14 parameters
\* and their 50 points lies in [0,1].
C16_CurveValuesInUnitInterval ==
    call.fn = "get_membership_functions" =>
        /\ Cardinality(DOMAIN call.out) = 14
        /\ \A v \in DOMAIN call.out :
              \A term \in DOMAIN call.out[v].terms :
                  /\ Len(call.out[v].terms[term]) = 50
                  /\ \A k \in 1..50 : call.out[v].terms[term][k] \in 0..One

\* The curves were returned, one of them reaching 1 and one reaching 0.
C16_Witness ==
    /\ call.fn = "get_membership_functions"
    /\ call.out.NO2_GT.terms.Hazardous[50] = One
    /\ call.out.NO2_GT.terms.Hazardous[1] = 0

\* The rules of an output term, and the largest of a set of strengths.
RulesOf(rs, term) == {i \in 1..Len(rs) : rs[i].consequent = term}
Largest(S) == IF S = {} THEN 0 ELSE CHOOSE m \in S : \A v \in S : v <= m

\* C21: the rules of one output term contribute the maximum of their firing
\* strengths, and the rule list in another order gives the same cuts and the
\* same defuzzified value.
C21_RuleOrderIrrelevant ==
    (call.fn = "comprehensive_assess" /\ "confidence" \in DOMAIN call.out) =>
        LET inp == Clipped(call.args[1])
            fire == Firing(rules, inp)
        IN  /\ \A t \in 1..Len(AqiTerms) :
                  Cuts(rules, inp)[t] = Largest({fire[i] : i \in RulesOf(rules, AqiTerms[t])})
            /\ \A order \in RuleOrders :
                  /\ Cuts(Reorder(rules, order), inp) = Cuts(rules, inp)
                  /\ Defuzz(Reorder(rules, order), inp).value = call.out.fuzzy_aqi

\* An assessment in which two rules of one output term fired with different
\* strengths.
C21_Witness ==
    /\ call.fn = "comprehensive_assess" /\ "confidence" \in DOMAIN call.out
    /\ LET fire == Firing(rules, Clipped(call.args[1]))
       IN  \E i, j \in 1..Len(rules) :
              /\ i < j /\ rules[i].consequent = rules[j].consequent
              /\ fire[i] > 0 /\ fire[j] > fire[i]

C23_SomeRuleAlwaysFires ==
    call.fn = "comprehensive_assess" =>
        LET inp == Clipped(call.args[1])
        IN  /\ \A x \in UniverseMin("NO2")..UniverseMax("NO2") : no2_level("Poor", x) > 0
            /\ rules[4] = Rule(Or(Leaf("CO", "High"), Leaf("NO2", "Poor")), "Unhealthy")
            /\ Firing(rules, inp)[4] > 0
            /\ SumArea(Cuts(rules, inp), 0, 499) > 0
            /\ "confidence" \in DOMAIN call.out

\* An assessment at the end of the NO2 universe farthest from the mean of
\* 'Poor', with CO 'High' inactive.
C23_Witness ==
    /\ call.fn = "comprehensive_assess"
    /\ call.args[1].NO2 = UniverseMin("NO2")
    /\ co_level("High", call.args[1].CO) = 0
    /\ "confidence" \in DOMAIN call.out

\* C24: the 'Emergency' rule (rule 10) never fires more strongly than
\* rule 5, nor rule 2 more strongly than rule 7, and the rule base without
\* rule 10 or without rule 2 gives the same cuts and the same fuzzy AQI.
C24_SubsumedRulesRedundant ==
    (call.fn = "comprehensive_assess" /\ "confidence" \in DOMAIN call.out) =>
        LET inp == Clipped(call.args[1])
            fire == Firing(rules, inp)
        IN  /\ rules[10].consequent = rules[5].consequent
            /\ rules[2].consequent = rules[7].consequent
            /\ fire[10] <= fire[5]
            /\ fire[2] <= fire[7]
            /\ \A k \in {2, 10} :
                  /\ Cuts(Without(rules, k), inp) = Cuts(rules, inp)
                  /\ Defuzz(Without(rules, k), inp).value = call.out.fuzzy_aqi

\* An assessment in which the 'Emergency' rule fired, less strongly than
\* rule 5.
C24_Witness ==
    /\ call.fn = "comprehensive_assess" /\ "confidence" \in DOMAIN call.out
    /\ LET fire == Firing(rules, Clipped(call.args[1]))
       IN  fire[10] > 0 /\ fire[10] < fire[5]

\* Humidity values an assessment is repeated with.
OtherHumidity == HumidityGrid \cup {UniverseMax("Humidity")}

\* C25: at a temperature of at most 25 degrees, an assessment repeated with
\* another humidity returns the same fuzzy AQI and category; a three-argument
\* assess call runs at 20 degrees whatever humidity the request carried.
C25_HumidityOnlyWhenHot ==
    (call.fn = "comprehensive_assess" /\ "confidence" \in DOMAIN call.out) =>
        LET a == call.args[1]
        IN  /\ a.Temperature <= 250 =>
                  \A h \in OtherHumidity :
                      LET other == Defuzz(rules, Clipped([a EXCEPT !.Humidity = h]))
                      IN  /\ ~other.raised
                          /\ other.value = call.out.fuzzy_aqi
                          /\ aqi_to_category(other.value) = call.out.category
            /\ \A h \in OtherHumidity :
                  /\ assess("/assess", [a EXCEPT !.Humidity = h]) = assess("/assess", a)
                  /\ assess("/assess", a).Temperature <= 250

\* An assessment of humid air at 25 degrees with rule 8's pollutant part
\* active.
C25_Witness ==
    /\ call.fn = "comprehensive_assess" /\ "confidence" \in DOMAIN call.out
    /\ call.args[1].Temperature = 250
    /\ humidity("Humid", call.args[1].Humidity) > 0
    /\ co_level("High", call.args[1].CO) > 0

\* C26: a finished call carries, on the toolkit path and on the except
\* path alike, a fuzzy AQI in 0..500, the category aqi_to_category gives
\* it, and the keys of the toolkit path's result.
C26_OneScaleOnBothPaths ==
    \A c \in Callers :
        pc[c] = "done" =>
            /\ result[c].fuzzy_aqi \in 0..(500 * 100)
            /\ result[c].category = aqi_to_category(result[c].fuzzy_aqi)
            /\ DOMAIN result[c] = DOMAIN BuildResult(Arguments(c), 0)

\* C27: in simple_assess the normalised O3 value does not decrease when the
\* raw reading grows, every O3 term has a positive degree for some reading
\* of the sensor universe, and a reading of 2900 has a positive
\* 'Very_Unhealthy' degree.
C27_O3NormalisationKeepsOrder ==
    call.fn = "simple_assess" =>
        LET o3 == call.args[3]
        IN  /\ call.out.membership.o3 = calculate_o3_membership(simple_o3_normalized(o3))
            /\ \A lower \in O3SensorReadings :
                  lower <= o3 => simple_o3_normalized(lower) <= simple_o3_normalized(o3)
            /\ \A term \in Terms("O3") :
                  \E some \in O3SensorReadings :
                      calculate_o3_membership(simple_o3_normalized(some))[term] > 0
            /\ o3 = 2900 => call.out.membership.o3.Very_Unhealthy > 0

CarriedMetrics == {"mae", "accuracy", "satisfaction"}

\* C29: a comparison that predicted at least one sample returns the metrics
\* calculate_enhanced_metrics gives the returned predictions; the default
\* metrics are returned only with empty prediction lists or on failure.
C29_MetricsFromPredictions ==
    cmp_pc = "done" =>
        LET p == cmp_result.predictions
        IN  IF cmp_result.success /\ Len(p.fuzzy) >= 1
            THEN LET computed == calculate_enhanced_metrics(p.fuzzy, p.crisp, p.ground_truth)
                 IN  \A method \in {"fuzzy", "crisp"} : \A k \in CarriedMetrics :
                         cmp_result.metrics[method][k] = computed[method][k]
            ELSE cmp_result.metrics = get_default_metrics

\* Order of two doubles written as whole number and offset.
DoubleLeq(a, b) == a.whole < b.whole \/ (a.whole = b.whole /\ a.ulps <= b.ulps)

\* C30: calculate_crisp_aqi returns a multiple of 5 in 0..100, 0 exactly
\* when co < 1, no2 < 50 and o3 < 50, 100 when co >= 7, no2 >= 200 and
\* o3 >= 150, and never less when one argument grows.
C30_CrispIsStepFunction ==
    call.fn = "calculate_crisp_aqi" =>
        LET co == call.args[1]
            no2 == call.args[2]
            o3 == call.args[3]
        IN  /\ call.out.whole \in 0..100
            /\ call.out.ulps = 0 /\ call.out.whole % 5 = 0
            /\ (call.out = [whole |-> 0, ulps |-> 0]) <=> (co < 10 /\ no2 < 500 /\ o3 < 500)
            /\ (co >= 70 /\ no2 >= 2000 /\ o3 >= 1500) => call.out = [whole |-> 100, ulps |-> 0]
            /\ \A more \in CrispCo : more >= co =>
                  DoubleLeq(call.out, calculate_crisp_aqi_double(more, no2, o3))
            /\ \A more \in CrispNo2 : more >= no2 =>
                  DoubleLeq(call.out, calculate_crisp_aqi_double(co, more, o3))
            /\ \A more \in CrispO3 : more >= o3 =>
                  DoubleLeq(call.out, calculate_crisp_aqi_double(co, no2, more))

====
